---- MODULE Spec2Model ----
(***************************************************************************)
(* Model of the ingress migration engine of traefik-migration-tool:        *)
(*   normalizeObjectName, convertIngress / extractRuleType,                *)
(*   expandFileContent / extractItems, convertFile / Convert.              *)
(*                                                                         *)
(* Strings are sequences of one-character strings, so that splitting,      *)
(* joining, substring search and comparison are computed, not assumed.     *)
(***************************************************************************)
EXTENDS Integers, Sequences, FiniteSets, TLC

VARIABLES
    nameIn,     \* argument of normalizeObjectName
    nameOut,    \* its result [name |-> ...]; NoValue until it was called
    ing,        \* argument of convertIngress
    result,     \* its outcome; NoValue until it was called
    file,       \* content of the source file, a sequence of tokens
    fsFail,     \* which filesystem call fails in this run, "none" if none
    pc,         \* position of Convert / convertFile
    expanded,   \* [content |-> ...] returned by expandFileContent; NoValue before
    parts,      \* convertFile: the parts of the expanded content still to process
    fragments,  \* convertFile: the fragments collected so far
    cur,        \* convertFile: the part processed by the last loop iteration
    written,    \* [content |-> ...] of the destination file; NoValue until written
    status      \* "running", "ok", "error" (Convert returned an error), "panic"

vars == <<nameIn, nameOut, ing, result, file, fsFail, pc, expanded, parts, fragments, cur, written, status>>

NoValue == [none |-> TRUE]

(***************************************************************************)
(* Strings                                                                 *)
(***************************************************************************)

\* The characters of the model in code-point order. "²" (SUPERSCRIPT TWO) is
\* of Unicode category No: a number that is not a decimal digit.
Chars == <<",", "-", ".", "/", "1", "2", ":", "@", "A", "P", "R", "S", "a", "b", "c", "d", "e", "f", "g",
           "h", "i", "k", "l", "m", "n", "o", "p", "r", "s", "t", "u", "w", "x", "y", "²">>

IsLetter(c) == c \in {"A", "P", "R", "S", "a", "b", "c", "d", "e", "f", "g", "h", "i", "k", "l", "m",
                      "n", "o", "p", "r", "s", "t", "u", "w", "x", "y"}
IsDigit(c)  == c \in {"1", "2"}
IsNumber(c) == IsDigit(c) \/ c = "²"

CharRank(c) == CHOOSE i \in 1..Len(Chars) : Chars[i] = c

\* Go's < on strings: bytewise lexicographic order.
RECURSIVE StrLess(_, _)
StrLess(s, t) ==
    IF t = <<>> THEN FALSE
    ELSE IF s = <<>> THEN TRUE
    ELSE IF Head(s) = Head(t) THEN StrLess(Tail(s), Tail(t))
    ELSE CharRank(Head(s)) < CharRank(Head(t))

IsPrefix(p, s) == Len(p) <= Len(s) /\ SubSeq(s, 1, Len(p)) = p

\* strings.Contains
Contains(s, sub) == \E i \in 0..(Len(s) - Len(sub)) : SubSeq(s, i + 1, i + Len(sub)) = sub

\* strings.Join over a sequence of strings
RECURSIVE JoinStr(_, _)
JoinStr(ss, sep) ==
    IF ss = <<>> THEN <<>>
    ELSE IF Len(ss) = 1 THEN ss[1]
    ELSE ss[1] \o sep \o JoinStr(Tail(ss), sep)

\* strings.FieldsFunc: the maximal runs of characters not satisfying the
\* separator test of normalizeObjectName (not a letter, not a number, not
\* '-'), empty runs dropped. acc holds the fields found, field the run at hand.
RECURSIVE FieldsFrom(_, _, _)
FieldsFrom(s, acc, field) ==
    IF s = <<>> THEN (IF field = <<>> THEN acc ELSE Append(acc, field))
    ELSE IF ~IsLetter(Head(s)) /\ ~IsNumber(Head(s)) /\ Head(s) # "-"
         THEN FieldsFrom(Tail(s), IF field = <<>> THEN acc ELSE Append(acc, field), <<>>)
         ELSE FieldsFrom(Tail(s), acc, Append(field, Head(s)))

normalizeObjectName(name) == JoinStr(FieldsFrom(name, <<>>, <<>>), <<"-">>)

(***************************************************************************)
(* Annotations. The annotation constants and the accessor getStringValue   *)
(* are declared outside the files at hand; they are modelled as the lookup *)
(* with default that convertIngress uses them as.                          *)
(***************************************************************************)
annotationKubernetesIngressClass        == "kubernetes.io/ingress.class"
annotationKubernetesFrontendEntryPoints == "ingress.kubernetes.io/frontend-entry-points"
annotationKubernetesSSLRedirect         == "ingress.kubernetes.io/ssl-redirect"
annotationKubernetesAuthType            == "ingress.kubernetes.io/auth-type"
annotationKubernetesCustomRequestHeaders == "ingress.kubernetes.io/custom-request-headers"
annotationKubernetesWhiteListSourceRange == "ingress.kubernetes.io/whitelist-source-range"
annotationKubernetesRequestModifier     == "ingress.kubernetes.io/request-modifier"
annotationKubernetesAppRoot             == "ingress.kubernetes.io/app-root"
annotationKubernetesRedirectEntryPoint  == "ingress.kubernetes.io/redirect-entry-point"
annotationKubernetesRuleType            == "ingress.kubernetes.io/rule-type"
annotationKubernetesRewriteTarget       == "ingress.kubernetes.io/rewrite-target"
annotationRouterEntryPoints             == "traefik.ingress.kubernetes.io/router.entrypoints"
annotationRouterMiddlewares             == "traefik.ingress.kubernetes.io/router.middlewares"

getStringValue(annotations, annotation, defaultValue) ==
    IF annotation \in DOMAIN annotations THEN annotations[annotation] ELSE defaultValue

\* m[k] = v on a Go map
SetAnnotation(annotations, k, v) ==
    [a \in DOMAIN annotations \cup {k} |-> IF a = k THEN v ELSE annotations[a]]

(***************************************************************************)
(* Constants of the package                                                *)
(***************************************************************************)
middlewareSuffix == <<"k", "u", "b", "e", "r", "n", "e", "t", "e", "s", "c", "r", "d">>
sslMiddlewareRef == <<"s", "s", "l", "-", "r", "e", "d", "i", "r", "e", "c", "t", "@", "f", "i", "l", "e">>
traefik          == <<"t", "r", "a", "e", "f", "i", "k">>

ruleTypePath            == <<"P", "a", "t", "h">>
ruleTypePathPrefix      == <<"P", "a", "t", "h", "P", "r", "e", "f", "i", "x">>
ruleTypePathStrip       == <<"P", "a", "t", "h", "S", "t", "r", "i", "p">>
ruleTypePathPrefixStrip == <<"P", "a", "t", "h", "P", "r", "e", "f", "i", "x", "S", "t", "r", "i", "p">>
ruleTypeAddPrefix       == <<"A", "d", "d", "P", "r", "e", "f", "i", "x">>
ruleTypeReplacePath     == <<"R", "e", "p", "l", "a", "c", "e", "P", "a", "t", "h">>

(***************************************************************************)
(* Middleware synthesis. The constructors are declared outside the files   *)
(* at hand. Each is modelled by its signature at the call site in          *)
(* convertIngress and by the naming rule "<owner or slug>-<suffix>", with  *)
(* per-path discriminators passed through normalizeObjectName.             *)
(***************************************************************************)
Middleware(namespace, name, kind, arg) ==
    [namespace |-> namespace, name |-> name, kind |-> kind, arg |-> arg]

NoMiddleware == [nil |-> TRUE]

getAuthMiddleware(ingress) ==
    IF getStringValue(ingress.annotations, annotationKubernetesAuthType, <<>>) # <<>>
    THEN Middleware(ingress.namespace, ingress.name \o <<"-", "a", "u", "t", "h">>, "BasicAuth", <<>>)
    ELSE NoMiddleware

getHeadersMiddleware(ingress) ==
    IF getStringValue(ingress.annotations, annotationKubernetesCustomRequestHeaders, <<>>) # <<>>
    THEN Middleware(ingress.namespace, ingress.name \o <<"-", "h", "e", "a", "d", "e", "r", "s">>, "Headers", <<>>)
    ELSE NoMiddleware

getWhiteList(ingress) ==
    IF getStringValue(ingress.annotations, annotationKubernetesWhiteListSourceRange, <<>>) # <<>>
    THEN Middleware(ingress.namespace, ingress.name \o <<"-", "w", "h", "i", "t", "e", "l", "i", "s", "t">>, "IPWhiteList", <<>>)
    ELSE NoMiddleware

\* The request-modifier mini-DSL is "<Kind>:<argument>"; a value without
\* the colon-separated kind ("AddPrefix" here) does not parse.
RequestModifierPrefix == ruleTypeAddPrefix \o <<":">>

parseRequestModifier(namespace, requestModifier, name) ==
    IF IsPrefix(RequestModifierPrefix, requestModifier)
    THEN [err |-> FALSE,
          middleware |-> Middleware(namespace, name \o <<"-", "m", "o", "d", "i", "f", "i", "e", "r">>, "AddPrefix",
                                    SubSeq(requestModifier, Len(RequestModifierPrefix) + 1, Len(requestModifier)))]
    ELSE [err |-> TRUE, middleware |-> NoMiddleware]

getFrontendRedirect(namespace, name, annotations) ==
    IF getStringValue(annotations, annotationKubernetesRedirectEntryPoint, <<>>) # <<>>
    THEN Middleware(namespace, name \o <<"-", "r", "e", "d", "i", "r", "e", "c", "t">>, "RedirectRegex", <<>>)
    ELSE NoMiddleware

getStripPrefix(path, prefix, namespace) ==
    Middleware(namespace, normalizeObjectName(prefix) \o <<"-", "s", "t", "r", "i", "p">>, "StripPrefix", path)

getReplacePathRegex(rule, path, namespace, rewriteTarget) ==
    Middleware(namespace, normalizeObjectName(rule.host \o path) \o <<"-", "r", "e", "p", "l", "a", "c", "e">>,
               "ReplacePathRegex", <<path, rewriteTarget>>)

getFrontendRedirectAppRoot(namespace, name, annotations, baseName, path) ==
    IF getStringValue(annotations, annotationKubernetesAppRoot, <<>>) # <<>>
    THEN Middleware(namespace, name \o <<"-", "a", "p", "p", "r", "o", "o", "t", "-">> \o normalizeObjectName(baseName),
                    "RedirectRegex", <<baseName, path>>)
    ELSE NoMiddleware

\* fmt.Sprintf("%s-%s@%s", m.GetNamespace(), m.GetName(), middlewareSuffix)
MiddlewareRef(m) == m.namespace \o <<"-">> \o m.name \o <<"@">> \o middlewareSuffix

(***************************************************************************)
(* convertIngress                                                          *)
(***************************************************************************)
\* The accumulators of convertIngress: middlewares and middlewareNames.
Acc(middlewares, middlewareNames) == [middlewares |-> middlewares, middlewareNames |-> middlewareNames]

\* Insertion of a string into a sorted sequence of strings.
RECURSIVE InsertSorted(_, _)
InsertSorted(sorted, x) ==
    IF sorted = <<>> THEN <<x>>
    ELSE IF StrLess(x, sorted[Len(sorted)])
         THEN Append(InsertSorted(SubSeq(sorted, 1, Len(sorted) - 1), x), sorted[Len(sorted)])
         ELSE Append(sorted, x)

\* The references kept in name order, as the returned middlewares are.
AppendMiddlewareRefsSorted(acc, m) ==
    IF m = NoMiddleware THEN acc
    ELSE [middlewares |-> Append(acc.middlewares, m),
          middlewareNames |-> InsertSorted(acc.middlewareNames, MiddlewareRef(m))]

\* if m != nil { middlewares = append(...); middlewareNames = append(...) }
AppendMiddleware(acc, m) ==
    IF m = NoMiddleware THEN acc
    ELSE Acc(Append(acc.middlewares, m), Append(acc.middlewareNames, MiddlewareRef(m)))

\* extractRuleType with ReplacePath rewritten to its matcher, as the strip
\* rule types are.
extractRuleTypePathForReplacePath(annotations) ==
    LET ruleType == getStringValue(annotations, annotationKubernetesRuleType, ruleTypePathPrefix)
    IN  IF ruleType \in {ruleTypePath, ruleTypePathPrefix}
            THEN [ruleType |-> ruleType, stripPrefix |-> FALSE, err |-> FALSE]
        ELSE IF ruleType = ruleTypePathStrip
            THEN [ruleType |-> ruleTypePath, stripPrefix |-> TRUE, err |-> FALSE]
        ELSE IF ruleType = ruleTypePathPrefixStrip
            THEN [ruleType |-> ruleTypePathPrefix, stripPrefix |-> TRUE, err |-> FALSE]
        ELSE IF ruleType = ruleTypeReplacePath
            THEN [ruleType |-> ruleTypePath, stripPrefix |-> FALSE, err |-> FALSE]
        ELSE [ruleType |-> <<>>, stripPrefix |-> FALSE, err |-> TRUE]

\* extractRuleType: the matcher, whether to strip the prefix, and the error
\* of a rule type that is no matcher.
extractRuleType(annotations) ==
    LET ruleType == getStringValue(annotations, annotationKubernetesRuleType, ruleTypePathPrefix)
    IN  IF ruleType \in {ruleTypePath, ruleTypePathPrefix}
            THEN [ruleType |-> ruleType, stripPrefix |-> FALSE, err |-> FALSE]
        ELSE IF ruleType = ruleTypePathStrip
            THEN [ruleType |-> ruleTypePath, stripPrefix |-> TRUE, err |-> FALSE]
        ELSE IF ruleType = ruleTypePathPrefixStrip
            THEN [ruleType |-> ruleTypePathPrefix, stripPrefix |-> TRUE, err |-> FALSE]
        ELSE IF ruleType = ruleTypeReplacePath
            THEN [ruleType |-> ruleType, stripPrefix |-> FALSE, err |-> FALSE]
        ELSE [ruleType |-> <<>>, stripPrefix |-> FALSE, err |-> TRUE]

\* The gate with the test of the class turned around.
ClassGateNegationDropped(ingressClass) == Len(ingressClass) > 0 /\ Contains(ingressClass, traefik)

\* The early exit of convertIngress: the ingress names a class and the class
\* does not contain "traefik".
ClassGate(ingressClass) == Len(ingressClass) > 0 /\ ~Contains(ingressClass, traefik)

\* The outcome of convertIngress: "ok" with the pair it returns, "fail" for
\* return nil, nil, "panic" for a nil dereference.
Outcome(st, newIngress, objects) == [status |-> st, ingress |-> newIngress, objects |-> objects]

\* Body of the inner loop, for one path of one rule. The result carries
\* status "ok" to go on, "fail" for the return nil, nil of the loop.
PathStep(ingress, rt, rule, path, acc) ==
    LET rewriteTarget == getStringValue(ingress.annotations, annotationKubernetesRewriteTarget, <<>>)
        acc1 == IF Len(path) > 0 /\ rt.stripPrefix
                THEN AppendMiddleware(acc, getStripPrefix(path, rule.host \o path, ingress.namespace))
                ELSE acc
        conflict == Len(path) > 0 /\ rewriteTarget # <<>> /\ rt.ruleType = ruleTypeReplacePath
        acc2 == IF Len(path) > 0 /\ rewriteTarget # <<>>
                THEN AppendMiddleware(acc1, getReplacePathRegex(rule, path, ingress.namespace, rewriteTarget))
                ELSE acc1
        acc3 == AppendMiddleware(acc2, getFrontendRedirectAppRoot(ingress.namespace, ingress.name,
                                                                  ingress.annotations, rule.host \o path, path))
    IN  IF conflict THEN [status |-> "fail", acc |-> acc1] ELSE [status |-> "ok", acc |-> acc3]

RECURSIVE PathsLoop(_, _, _, _, _)
PathsLoop(ingress, rt, rule, paths, acc) ==
    IF paths = <<>> THEN [status |-> "ok", acc |-> acc]
    ELSE LET step == PathStep(ingress, rt, rule, Head(paths), acc)
         IN  IF step.status # "ok" THEN step
             ELSE PathsLoop(ingress, rt, rule, Tail(paths), step.acc)

\* for _, rule := range ingress.Spec.Rules { for _, path := range rule.HTTP.Paths
\* rule.HTTP is a pointer, nil for a rule without an http section.
RECURSIVE RulesLoop(_, _, _, _)
RulesLoop(ingress, rt, rules, acc) ==
    IF rules = <<>> THEN [status |-> "ok", acc |-> acc]
    ELSE IF ~Head(rules).http THEN [status |-> "panic", acc |-> acc]
    ELSE LET inner == PathsLoop(ingress, rt, Head(rules), Head(rules).paths, acc)
         IN  IF inner.status # "ok" THEN inner
             ELSE RulesLoop(ingress, rt, Tail(rules), inner.acc)

\* sort.Slice(middlewares, by Name): insertion sort, which is what
\* sort.Slice runs on slices of at most 12 elements.
RECURSIVE InsertByName(_, _)
InsertByName(sorted, m) ==
    IF sorted = <<>> THEN <<m>>
    ELSE IF StrLess(m.name, sorted[Len(sorted)].name)
         THEN Append(InsertByName(SubSeq(sorted, 1, Len(sorted) - 1), m), sorted[Len(sorted)])
         ELSE Append(sorted, m)

RECURSIVE SortByName(_)
SortByName(ms) ==
    IF ms = <<>> THEN <<>>
    ELSE InsertByName(SortByName(SubSeq(ms, 1, Len(ms) - 1)), ms[Len(ms)])

convertIngress(ingress) ==
    LET ann == ingress.annotations
        ingressClass == getStringValue(ann, annotationKubernetesIngressClass, <<>>)
        entryPoints == getStringValue(ann, annotationKubernetesFrontendEntryPoints, <<>>)
        ann1 == IF entryPoints # <<>> THEN SetAnnotation(ann, annotationRouterEntryPoints, entryPoints) ELSE ann
        sslRedirect == getStringValue(ann, annotationKubernetesSSLRedirect, <<>>)
        acc0 == Acc(<<>>, IF sslRedirect # <<>> THEN <<sslMiddlewareRef>> ELSE <<>>)
        acc1 == AppendMiddleware(acc0, getAuthMiddleware(ingress))
        acc2 == AppendMiddleware(acc1, getHeadersMiddleware(ingress))
        acc3 == AppendMiddleware(acc2, getWhiteList(ingress))
        requestModifier == getStringValue(ann, annotationKubernetesRequestModifier, <<>>)
        parsed == parseRequestModifier(ingress.namespace, requestModifier, ingress.name)
        acc4 == IF requestModifier # <<>> /\ ~parsed.err THEN AppendMiddleware(acc3, parsed.middleware) ELSE acc3
        acc5 == IF getStringValue(ann, annotationKubernetesAppRoot, <<>>) = <<>>
                THEN AppendMiddleware(acc4, getFrontendRedirect(ingress.namespace, ingress.name, ann))
                ELSE acc4
        rt == extractRuleType(ann)
        loop == RulesLoop(ingress, rt, ingress.rules, acc5)
        names == loop.acc.middlewareNames
    IN  IF ClassGate(ingressClass) THEN Outcome("ok", ingress, <<>>)
        ELSE IF rt.err THEN Outcome("fail", NoValue, <<>>)
        ELSE IF loop.status # "ok" THEN Outcome(loop.status, NoValue, <<>>)
        \* an assignment to an entry of a nil map panics
        ELSE IF Len(names) > 0 /\ DOMAIN ann1 = {} THEN Outcome("panic", NoValue, <<>>)
        ELSE Outcome("ok",
                     [ingress EXCEPT !.annotations =
                         IF Len(names) > 0
                         THEN SetAnnotation(ann1, annotationRouterMiddlewares, JoinStr(names, <<",">>))
                         ELSE ann1],
                     SortByName(loop.acc.middlewares))

RECURSIVE SeqsUpTo(_, _)
SeqsUpTo(S, n) ==
    IF n = 0 THEN {<<>>}
    ELSE LET shorter == SeqsUpTo(S, n - 1)
         IN  shorter \cup {Append(s, x) : s \in shorter, x \in S}

(***************************************************************************)
(* Specification of convertIngress alone: an ingress drawn from a bounded  *)
(* set is converted once.                                                  *)
(***************************************************************************)
MaxAnnotations == 3
MaxRules == 2

\* A rule without an http section, or a host with its paths.
Rule(host, http, paths) == [host |-> host, http |-> http, paths |-> paths]

RuleChoices ==
    {Rule(<<"a", ".", "b">>, FALSE, <<>>),
     Rule(<<"a", ".", "b">>, TRUE, <<<<"/", "x">>>>),
     Rule(<<"a">>, TRUE, <<<<"/", "b", "/", "x">>>>),
     Rule(<<"a", ".", "b">>, TRUE, <<<<>>>>),
     Rule(<<"a">>, TRUE, <<<<>>, <<"/", "x">>>>)}

\* The values each legacy annotation is drawn from.
AnnotationValues ==
    [k \in {annotationKubernetesIngressClass, annotationKubernetesFrontendEntryPoints,
            annotationKubernetesSSLRedirect, annotationKubernetesAuthType,
            annotationKubernetesCustomRequestHeaders, annotationKubernetesWhiteListSourceRange,
            annotationKubernetesRequestModifier, annotationKubernetesAppRoot,
            annotationKubernetesRedirectEntryPoint, annotationKubernetesRuleType,
            annotationKubernetesRewriteTarget} |->
        CASE k = annotationKubernetesIngressClass ->
                {<<"n", "g", "i", "n", "x">>, <<"m", "y", "-">> \o traefik}
          [] k = annotationKubernetesRuleType ->
                {ruleTypePath, ruleTypePathStrip, ruleTypePathPrefixStrip,
                 ruleTypeReplacePath, ruleTypeAddPrefix}
          [] k = annotationKubernetesRequestModifier ->
                {RequestModifierPrefix \o <<"/", "x">>, <<"x">>}
          [] k = annotationKubernetesRewriteTarget -> {<<"/", "t">>}
          [] k = annotationKubernetesAppRoot -> {<<"/", "r">>}
          [] OTHER -> {<<"t">>}]

\* The annotation maps over a set of keys, each key with one of its values.
RECURSIVE MapsOver(_)
MapsOver(keys) ==
    IF keys = {} THEN {<<>>}
    ELSE LET k == CHOOSE x \in keys : TRUE
         IN  {SetAnnotation(m, k, v) : m \in MapsOver(keys \ {k}), v \in AnnotationValues[k]}

AnnotationMaps ==
    UNION {MapsOver(keys) :
              keys \in {ks \in SUBSET DOMAIN AnnotationValues : Cardinality(ks) <= MaxAnnotations}}

Ingresses ==
    {[apiVersion |-> "networking.k8s.io/v1", namespace |-> <<"n">>, name |-> <<"i">>,
      annotations |-> a, rules |-> r] :
        a \in AnnotationMaps,
        r \in SeqsUpTo(RuleChoices, MaxRules)}

IngressInit ==
    /\ ing \in Ingresses
    /\ result = NoValue
    /\ nameIn = <<>> /\ nameOut = NoValue
    /\ file = <<>> /\ fsFail = "none" /\ pc = "idle" /\ expanded = NoValue /\ parts = <<>>
    /\ fragments = <<>> /\ cur = NoValue /\ written = NoValue /\ status = "running"

ConvertIngress ==
    /\ result = NoValue
    /\ result' = convertIngress(ing)
    /\ UNCHANGED <<nameIn, nameOut, ing, file, fsFail, pc, expanded, parts, fragments, cur, written, status>>

IngressNext == ConvertIngress

IngressSpec == IngressInit /\ [][IngressNext]_vars

(***************************************************************************)
(* Properties of convertIngress                                            *)
(***************************************************************************)
Converted == result # NoValue

\* The ingress names a class that does not contain "traefik".
ForeignClass(i) ==
    /\ annotationKubernetesIngressClass \in DOMAIN i.annotations
    /\ i.annotations[annotationKubernetesIngressClass] # <<>>
    /\ \A n \in 1..(Len(i.annotations[annotationKubernetesIngressClass]) - Len(traefik) + 1) :
          SubSeq(i.annotations[annotationKubernetesIngressClass], n, n + Len(traefik) - 1) # traefik

HasAnnotation(i, k, v) == k \in DOMAIN i.annotations /\ i.annotations[k] = v

ReplacePathWithRewriteTarget(i) ==
    /\ ~ForeignClass(i)
    /\ HasAnnotation(i, annotationKubernetesRuleType, ruleTypeReplacePath)
    /\ annotationKubernetesRewriteTarget \in DOMAIN i.annotations
    /\ i.annotations[annotationKubernetesRewriteTarget] # <<>>

HasNonEmptyPath(i) ==
    \E r \in 1..Len(i.rules) : \E q \in 1..Len(i.rules[r].paths) : i.rules[r].paths[q] # <<>>

\* C5 as stated: with rule-type ReplacePath and a rewrite-target, the
\* conversion never returns a rewritten ingress, whatever the rules are.
C5_ReplacePathRewriteAlwaysFails ==
    Converted /\ ReplacePathWithRewriteTarget(ing) => result.status # "ok"

\* C5 amended: with rule-type ReplacePath and a rewrite-target, an ingress
\* that has a path that is not empty gets no rewritten ingress and no
\* middlewares.
C5_ReplacePathRewriteFailsOnNonEmptyPath ==
    Converted /\ ReplacePathWithRewriteTarget(ing) /\ HasNonEmptyPath(ing)
        => result.status # "ok" /\ result.ingress = NoValue /\ result.objects = <<>>

C5_Witness ==
    /\ Converted /\ ReplacePathWithRewriteTarget(ing) /\ HasNonEmptyPath(ing)
    /\ result.status = "fail"

\* C6: an ingress of a foreign class is returned as it is, with no middleware.
C6_ForeignClassUnchanged ==
    Converted /\ ForeignClass(ing)
        => result.status = "ok" /\ result.ingress = ing /\ result.objects = <<>>

C6_Witness ==
    /\ Converted /\ ForeignClass(ing)
    /\ HasAnnotation(ing, annotationKubernetesRuleType, ruleTypeAddPrefix)
    /\ result.status = "ok" /\ result.ingress = ing

\* strings.Split(s, ","): the fields between the commas of s.
SplitComma(s) ==
    LET commas == {p \in 1..Len(s) : s[p] = ","}
        \* position of the k-th comma; 0 and Len(s) + 1 close the ends
        cut(k) == IF k = 0 THEN 0
                  ELSE IF k > Cardinality(commas) THEN Len(s) + 1
                  ELSE CHOOSE p \in commas : Cardinality({q \in commas : q < p}) = k - 1
    IN  [k \in 1..(Cardinality(commas) + 1) |-> SubSeq(s, cut(k - 1) + 1, cut(k) - 1)]

\* The references listed by the router-middlewares annotation of the result.
ChainRefs(i) ==
    IF annotationRouterMiddlewares \in DOMAIN i.annotations
    THEN SplitComma(i.annotations[annotationRouterMiddlewares])
    ELSE <<>>

RefsOf(ms) == [n \in 1..Len(ms) |-> MiddlewareRef(ms[n])]
Present(m) == IF m = NoMiddleware THEN <<>> ELSE <<m>>

\* The (rule, path) pairs of an ingress in spec order.
RECURSIVE PairsOf(_)
PairsOf(rules) ==
    IF rules = <<>> THEN <<>>
    ELSE [n \in 1..Len(Head(rules).paths) |-> [rule |-> Head(rules), path |-> Head(rules).paths[n]]]
         \o PairsOf(Tail(rules))

\* The middlewares of one (rule, path) pair: strip-prefix, replace-path-regex,
\* app-root redirect.
PairMiddlewares(i, pr) ==
    LET rt == getStringValue(i.annotations, annotationKubernetesRuleType, ruleTypePathPrefix)
        rw == getStringValue(i.annotations, annotationKubernetesRewriteTarget, <<>>)
    IN  (IF pr.path # <<>> /\ rt \in {ruleTypePathStrip, ruleTypePathPrefixStrip}
         THEN <<getStripPrefix(pr.path, pr.rule.host \o pr.path, i.namespace)>> ELSE <<>>)
        \o (IF pr.path # <<>> /\ rw # <<>>
            THEN <<getReplacePathRegex(pr.rule, pr.path, i.namespace, rw)>> ELSE <<>>)
        \o Present(getFrontendRedirectAppRoot(i.namespace, i.name, i.annotations,
                                              pr.rule.host \o pr.path, pr.path))

RECURSIVE Flatten(_)
Flatten(ss) == IF ss = <<>> THEN <<>> ELSE Head(ss) \o Flatten(Tail(ss))

\* The synthesis order: ssl-redirect, auth, headers, whitelist,
\* request-modifier, redirect, then the middlewares of each pair.
SynthesisOrder(i) ==
    LET rm == getStringValue(i.annotations, annotationKubernetesRequestModifier, <<>>)
        pm == parseRequestModifier(i.namespace, rm, i.name)
        pairs == PairsOf(i.rules)
    IN  (IF getStringValue(i.annotations, annotationKubernetesSSLRedirect, <<>>) # <<>>
         THEN <<sslMiddlewareRef>> ELSE <<>>)
        \o RefsOf(Present(getAuthMiddleware(i)) \o Present(getHeadersMiddleware(i))
                  \o Present(getWhiteList(i))
                  \o (IF rm # <<>> /\ ~pm.err THEN <<pm.middleware>> ELSE <<>>)
                  \o (IF getStringValue(i.annotations, annotationKubernetesAppRoot, <<>>) = <<>>
                      THEN Present(getFrontendRedirect(i.namespace, i.name, i.annotations)) ELSE <<>>)
                  \o Flatten([n \in 1..Len(pairs) |-> PairMiddlewares(i, pairs[n])]))

Succeeded == Converted /\ ~ForeignClass(ing) /\ result.status = "ok"

\* The annotation lists the references in synthesis order.
RefsInSynthesisOrder == Succeeded => ChainRefs(result.ingress) = SynthesisOrder(ing)

\* The number of elements of a sequence equal to x.
Count(ss, x) == Cardinality({c \in 1..Len(ss) : ss[c] = x})

\* Each returned middleware has exactly one reference in the annotation: a
\* reference string is listed as many times as there are middlewares it
\* names, and but for the static ssl-redirect reference nothing else is listed.
OneRefPerMiddleware ==
    Succeeded =>
        LET refs == ChainRefs(result.ingress)
            objs == RefsOf(result.objects)
        IN  /\ \A o \in 1..Len(objs) : Count(refs, objs[o]) = Count(objs, objs[o])
            /\ \A r \in 1..Len(refs) : refs[r] = sslMiddlewareRef \/ Count(objs, refs[r]) > 0
            /\ Count(refs, sslMiddlewareRef) <= 1

PerPathKinds == {"StripPrefix", "ReplacePathRegex"}

\* C9: no two middlewares returned by one conversion have the same name;
\* stated for the middlewares of the per-path synthesis sites, strip-prefix
\* and replace-path-regex.
C9_MiddlewareNamesUnique ==
    Succeeded =>
        \A m, n \in 1..Len(result.objects) :
            /\ m # n
            /\ result.objects[m].kind \in PerPathKinds
            /\ result.objects[n].kind \in PerPathKinds
            => result.objects[m].name # result.objects[n].name

\* C10: convertIngress returns, a result or the no-result failure, for every
\* ingress that passes the class gate.
C10_ConvertIngressReturns ==
    Converted /\ ~ForeignClass(ing) => result.status \in {"ok", "fail"}

(***************************************************************************)
(* Manifests. A content is a sequence of tokens: the separator "---", a    *)
(* line break, or the text of one document. A document carries the         *)
(* position it has in the source file (id), how its text was produced      *)
(* ("source": the bytes of the source file, "marshal": yaml.Marshal,       *)
(* "encode": encodeYaml) and what it decodes to (body).                    *)
(***************************************************************************)
separator == [t |-> "sep"]
newline   == [t |-> "nl"]
Doc(id, format, body) == [t |-> "doc", id |-> id, format |-> format, body |-> body]

extensionsV1beta1 == "extensions/v1beta1"
networkingV1      == "networking.k8s.io/v1"

\* strings.Split(content, separator)
RECURSIVE SplitFrom(_, _, _)
SplitFrom(content, acc, part) ==
    IF content = <<>> THEN Append(acc, part)
    ELSE IF Head(content) = separator THEN SplitFrom(Tail(content), Append(acc, part), <<>>)
    ELSE SplitFrom(Tail(content), acc, Append(part, Head(content)))

Split(content) == SplitFrom(content, <<>>, <<>>)

\* strings.Join(fragments, separator+"\n")
RECURSIVE Join(_)
Join(frags) ==
    IF frags = <<>> THEN <<>>
    ELSE IF Len(frags) = 1 THEN frags[1]
    ELSE frags[1] \o <<separator, newline>> \o Join(Tail(frags))

\* part == "\n" || part == ""
Skipped(part) == part = <<newline>> \/ part = <<>>

DocsOf(tokens) == SelectSeq(tokens, LAMBDA x : x.t = "doc")

\* The first YAML document of a text, which is all that yaml.Unmarshal
\* decodes: the text up to the first separator, a leading separator skipped.
FirstDocument(content) ==
    LET ps == Split(content)
    IN  IF content # <<>> /\ Head(content) = separator THEN ps[2] ELSE ps[1]

\* createUnstructured: the decoded object, or an error for a text that is
\* not a YAML mapping. A text without a document decodes to the empty object.
createUnstructured(content) ==
    LET docs == DocsOf(FirstDocument(content))
    IN  IF docs = <<>> THEN [err |-> FALSE, object |-> [kind |-> ""]]
        ELSE IF docs[1].body.kind = "Malformed" THEN [err |-> TRUE, object |-> NoValue]
        ELSE [err |-> FALSE, object |-> docs[1]]

\* unstructured.IsList: the object has an items sequence
IsList(u) == "body" \in DOMAIN u /\ "items" \in DOMAIN u.body

IsIngressItem(elt) == elt.apiVersion \in {extensionsV1beta1, networkingV1} /\ elt.kind = "Ingress"

extractItems(items) ==
    [toKeep |-> SelectSeq(items, LAMBDA elt : ~IsIngressItem(elt)),
     toConvert |-> SelectSeq(items, LAMBDA elt : IsIngressItem(elt))]

\* The fragments one iteration of the loop of expandFileContent appends for
\* `part`, given the object decoded in that iteration.
ExpandedFragments(part, listObj) ==
    IF ~IsList(listObj) THEN <<part>>
    ELSE LET split == extractItems(listObj.body.items)
         IN  IF Len(listObj.body.items) = Len(split.toKeep) THEN <<part>>
             ELSE (IF Len(split.toKeep) > 0
                   THEN <<<<Doc(listObj.id, "marshal", [listObj.body EXCEPT !.items = split.toKeep])>>>>
                   ELSE <<>>)
                  \o [n \in 1..Len(split.toConvert) |->
                         <<Doc(split.toConvert[n].id, "marshal", split.toConvert[n])>>]

\* The object each iteration decodes: createUnstructured(content), the
\* content of the whole file.
DecodedInLoop(content, part) == createUnstructured(content)

\* The loop of expandFileContent over the parts still to visit.
RECURSIVE ExpandLoop(_, _, _)
ExpandLoop(content, ps, frags) ==
    IF ps = <<>> THEN [err |-> FALSE, fragments |-> frags]
    ELSE IF Skipped(Head(ps)) THEN ExpandLoop(content, Tail(ps), frags)
    ELSE LET u == DecodedInLoop(content, Head(ps))
         IN  IF u.err THEN [err |-> TRUE, fragments |-> <<>>]
             ELSE ExpandLoop(content, Tail(ps), frags \o ExpandedFragments(Head(ps), u.object))

\* expandFileContent on the content read from the file
expandFileContent(content) ==
    LET r == ExpandLoop(content, Split(content), <<>>)
    IN  IF r.err THEN [err |-> TRUE, content |-> <<>>]
        ELSE [err |-> FALSE, content |-> Join(r.fragments)]

\* parseYaml: the universal deserializer knows the registered kinds only.
parseYaml(part) ==
    LET docs == DocsOf(part)
    IN  IF docs = <<>> \/ docs[1].body.kind \notin {"ConfigMap", "Ingress", "List"}
        THEN [err |-> TRUE, object |-> NoValue]
        ELSE [err |-> FALSE, object |-> docs[1]]

\* extensionsToNetworking: the fields of the ingress carried over through
\* the protobuf encoding, which leaves the type information behind.
extensionsToNetworking(i) == [i EXCEPT !.apiVersion = ""]

\* encodeYaml(object, groupVersion); a nil object is refused by the encoder.
encodeYaml(id, object, kind, groupVersion) ==
    IF object = NoValue THEN [err |-> TRUE, yml |-> <<>>]
    ELSE [err |-> FALSE,
          yml |-> <<Doc(id, "encode",
                        IF kind = "Ingress"
                        THEN [apiVersion |-> groupVersion, kind |-> kind, id |-> id,
                              ingress |-> [object EXCEPT !.apiVersion = groupVersion]]
                        ELSE [apiVersion |-> groupVersion, kind |-> kind, id |-> id,
                              middleware |-> object])>>]

traefikV1alpha1 == "traefik.containo.us/v1alpha1"

\* convertFile, lines 119-131: the converted ingress and its middlewares
\* are encoded and appended, unless convertIngress panicked or the encoder
\* refused the ingress.
EncodedFragments(id, res) ==
    IF res.status = "panic" THEN [status |-> "panic", fragments |-> <<>>]
    ELSE IF encodeYaml(id, res.ingress, "Ingress", networkingV1).err
        THEN [status |-> "error", fragments |-> <<>>]
    ELSE [status |-> "ok",
          fragments |-> <<encodeYaml(id, res.ingress, "Ingress", networkingV1).yml>> \o
              [n \in 1..Len(res.objects) |->
                  encodeYaml(id, res.objects[n], "Middleware", traefikV1alpha1).yml]]

\* convertFile, lines 87-117: the part is kept as it is unless it decodes to
\* an ingress.
ClassifiedFragments(part, unstruct, parsed) ==
    IF unstruct.err THEN [status |-> "error", fragments |-> <<>>]
    ELSE IF IsList(unstruct.object) THEN [status |-> "ok", fragments |-> <<part>>]
    ELSE IF parsed.err THEN [status |-> "ok", fragments |-> <<part>>]
    ELSE IF parsed.object.body.kind # "Ingress" THEN [status |-> "ok", fragments |-> <<part>>]
    ELSE EncodedFragments(parsed.object.id,
                          convertIngress(IF parsed.object.body.apiVersion = extensionsV1beta1
                                         THEN extensionsToNetworking(parsed.object.body.ingress)
                                         ELSE parsed.object.body.ingress))

\* One iteration of the loop of convertFile: what it appends to fragments,
\* or the error it returns, or the panic it dies of.
ConvertedFragments(part) == ClassifiedFragments(part, createUnstructured(part), parseYaml(part))

(***************************************************************************)
(* Specification of Convert on one file                                    *)
(***************************************************************************)
MaxDocs == 2
MaxItems == 2

IngressOf(annotations, rules) ==
    [apiVersion |-> "", namespace |-> <<"n">>, name |-> <<"i">>, annotations |-> annotations, rules |-> rules]

OneRule == <<Rule(<<"a", ".", "b">>, TRUE, <<<<"/", "x">>>>)>>

\* An ingress without annotations, one with an implicit strip, one whose
\* rule-type is no matcher.
PlainIngress   == IngressOf(<<>>, OneRule)
StripIngress   == IngressOf(SetAnnotation(<<>>, annotationKubernetesRuleType, ruleTypePathPrefixStrip), OneRule)
InvalidIngress == IngressOf(SetAnnotation(<<>>, annotationKubernetesRuleType, ruleTypeAddPrefix), OneRule)

IngressBody(apiVersion, i) == [apiVersion |-> apiVersion, kind |-> "Ingress", ingress |-> [i EXCEPT !.apiVersion = apiVersion]]
ConfigMapBody == [apiVersion |-> "v1", kind |-> "ConfigMap"]

ItemChoices == {ConfigMapBody, IngressBody(extensionsV1beta1, PlainIngress), IngressBody(networkingV1, StripIngress)}

BodyChoices ==
    {[kind |-> "Malformed"], [apiVersion |-> "example.org/v1", kind |-> "Unknown"], ConfigMapBody,
     IngressBody(extensionsV1beta1, PlainIngress), IngressBody(networkingV1, StripIngress),
     IngressBody(networkingV1, InvalidIngress)}
    \cup {[apiVersion |-> "v1", kind |-> "List", items |-> items] : items \in SeqsUpTo(ItemChoices, MaxItems)}

\* The body at position id of the file, its list items numbered below it.
WithIds(body, id) ==
    IF "items" \in DOMAIN body
    THEN [body EXCEPT !.items = [n \in 1..Len(body.items) |-> body.items[n] @@ [id |-> <<id, n>>]]] @@ [id |-> <<id>>]
    ELSE body @@ [id |-> <<id>>]

\* The text of a file: its documents, each ended by a line break, with
\* "---\n" between them and, possibly, before the first.
FileOf(bodies, leading) ==
    (IF leading THEN <<separator, newline>> ELSE <<>>)
    \o Join([n \in 1..Len(bodies) |-> <<Doc(<<n>>, "source", WithIds(bodies[n], n))>>])

FileInit ==
    /\ \E bodies \in SeqsUpTo(BodyChoices, MaxDocs), leading \in BOOLEAN :
          file = FileOf(bodies, leading)
    /\ fsFail \in {"none", "read", "mkdir", "write"}
    /\ pc = "read"
    /\ expanded = NoValue /\ parts = <<>> /\ fragments = <<>>
    /\ cur = NoValue /\ written = NoValue /\ status = "running"
    /\ nameIn = <<>> /\ nameOut = NoValue /\ ing = NoValue /\ result = NoValue

Fail(st) ==
    /\ status' = st
    /\ pc' = "done"

\* convertFile, line 70: expandFileContent reads the file and expands it.
ExpandFileContent ==
    /\ pc = "read"
    /\ IF fsFail = "read" \/ expandFileContent(file).err
       THEN Fail("error") /\ UNCHANGED expanded
       ELSE /\ expanded' = [content |-> expandFileContent(file).content]
            /\ pc' = "mkdir"
            /\ UNCHANGED status
    /\ UNCHANGED <<nameIn, nameOut, ing, result, file, fsFail, parts, fragments, cur, written>>

\* convertFile, lines 75-81: the destination directory, then the split.
MkdirAll ==
    /\ pc = "mkdir"
    /\ IF fsFail = "mkdir"
       THEN Fail("error") /\ UNCHANGED parts
       ELSE /\ parts' = Split(expanded.content)
            /\ pc' = "loop"
            /\ UNCHANGED status
    /\ UNCHANGED <<nameIn, nameOut, ing, result, file, fsFail, expanded, fragments, cur, written>>

\* The end of an iteration: return the error, or append and go on.
Iterate(r) ==
    IF r.status # "ok"
    THEN Fail(r.status) /\ UNCHANGED <<parts, fragments>>
    ELSE /\ fragments' = fragments \o r.fragments
         /\ parts' = Tail(parts)
         /\ UNCHANGED <<status, pc>>

\* convertFile, lines 82-132: one iteration of the loop over the parts.
ConvertPart ==
    /\ pc = "loop"
    /\ parts # <<>>
    /\ cur' = [part |-> Head(parts)]
    /\ IF Skipped(Head(parts))
       THEN /\ parts' = Tail(parts)
            /\ UNCHANGED <<fragments, status, pc>>
       ELSE Iterate(ConvertedFragments(Head(parts)))
    /\ UNCHANGED <<nameIn, nameOut, ing, result, file, fsFail, expanded, written>>

\* convertFile, line 134: the destination file is written.
WriteFile ==
    /\ pc = "loop"
    /\ parts = <<>>
    /\ IF fsFail = "write"
       THEN Fail("error") /\ UNCHANGED written
       ELSE /\ written' = [content |-> Join(fragments)]
            /\ status' = "ok"
            /\ pc' = "done"
    /\ UNCHANGED <<nameIn, nameOut, ing, result, file, fsFail, expanded, parts, fragments, cur>>

FileNext == ExpandFileContent \/ MkdirAll \/ ConvertPart \/ WriteFile

FileSpec == FileInit /\ [][FileNext]_vars

(***************************************************************************)
(* Properties of expandFileContent and convertFile                         *)
(***************************************************************************)
IsListDoc(d) == "items" \in DOMAIN d.body

\* How often an item is emitted as a document of its own, and how often
\* inside a list, by the expanded content.
Standalone(docs, item) == Cardinality({n \in 1..Len(docs) : docs[n].body = item})
InsideList(docs, item) ==
    Cardinality({pos \in UNION {{<<n, j>> : j \in 1..Len(docs[n].body.items)} :
                                   n \in {m \in 1..Len(docs) : IsListDoc(docs[m])}} :
                    docs[pos[1]].body.items[pos[2]] = item})

EmittedOnce(docs, item) ==
    IF IsIngressItem(item)
    THEN Standalone(docs, item) = 1 /\ InsideList(docs, item) = 0
    ELSE Standalone(docs, item) = 0 /\ InsideList(docs, item) = 1

\* C1: expandFileContent emits each item of each list of the file exactly
\* once: an ingress as a fragment of its own, any other item inside the
\* residual list.
C1_EveryListItemEmittedOnce ==
    expanded # NoValue =>
        \A n \in 1..Len(DocsOf(file)) :
            IsListDoc(DocsOf(file)[n]) =>
                \A j \in 1..Len(DocsOf(file)[n].body.items) :
                    EmittedOnce(DocsOf(expanded.content), DocsOf(file)[n].body.items[j])

PassThrough(d) == d.format = "source" /\ d.body.kind \in {"ConfigMap", "Unknown"}

\* C2: the documents of the file that decode to neither an ingress nor a
\* list are the pass-through documents of the written file: each once,
\* unchanged, in the order of the source.
C2_PassThroughPreserved ==
    pc = "done" /\ status = "ok" =>
        SelectSeq(DocsOf(written.content), PassThrough) = SelectSeq(DocsOf(file), PassThrough)

Undecodable(part) ==
    /\ DocsOf(part) # <<>>
    /\ DocsOf(part)[1].body.kind \in {"Malformed", "Unknown"}

\* C3: a fragment that cannot be decoded does not make Convert fail; it is
\* kept as it is.
C3_UndecodableFragmentKept ==
    fsFail = "none" /\ cur # NoValue /\ Undecodable(cur.part) =>
        /\ status # "error"
        /\ fragments # <<>>
        /\ fragments[Len(fragments)] = cur.part

InvalidRuleTypePart(part) ==
    /\ DocsOf(part) # <<>>
    /\ DocsOf(part)[1].body.kind = "Ingress"
    /\ annotationKubernetesRuleType \in DOMAIN DocsOf(part)[1].body.ingress.annotations
    /\ DocsOf(part)[1].body.ingress.annotations[annotationKubernetesRuleType]
          \notin {ruleTypePath, ruleTypePathPrefix, ruleTypePathStrip, ruleTypePathPrefixStrip,
                  ruleTypeReplacePath}

\* C4: an ingress whose rule-type is no matcher makes convertFile neither
\* return an error nor crash.
C4_InvalidRuleTypeIsLocal ==
    fsFail = "none" /\ cur # NoValue /\ InvalidRuleTypePart(cur.part) => status \notin {"error", "panic"}

(***************************************************************************)
(* Specification of normalizeObjectName alone                              *)
(***************************************************************************)
MaxNameLen == 3

NameAlphabet == {"a", "1", "-", ".", "/", "²"}

NameInit ==
    /\ nameIn \in SeqsUpTo(NameAlphabet, MaxNameLen)
    /\ nameOut = NoValue
    /\ ing = NoValue /\ result = NoValue
    /\ file = <<>> /\ fsFail = "none" /\ pc = "idle" /\ expanded = NoValue /\ parts = <<>>
    /\ fragments = <<>> /\ cur = NoValue /\ written = NoValue /\ status = "running"

Normalize ==
    /\ nameOut = NoValue
    /\ nameOut' = [name |-> normalizeObjectName(nameIn)]
    /\ UNCHANGED <<nameIn, ing, result, file, fsFail, pc, expanded, parts, fragments, cur, written, status>>

NameNext == Normalize

NameSpec == NameInit /\ [][NameNext]_vars

OnlyNameChars(s) == \A i \in 1..Len(s) : IsLetter(s[i]) \/ IsDigit(s[i]) \/ s[i] = "-"
NoStrayHyphen(s) ==
    /\ s # <<>> => (s[1] # "-" /\ s[Len(s)] # "-")
    /\ \A i \in 1..(Len(s) - 1) : ~(s[i] = "-" /\ s[i + 1] = "-")

\* C8: the result of normalizeObjectName contains only letters, digits and
\* hyphens, and has no leading, trailing or doubled hyphen.
C8_NormalizedNameIsClean ==
    nameOut # NoValue => OnlyNameChars(nameOut.name) /\ NoStrayHyphen(nameOut.name)
====
